---- MODULE Spec2Model ----
(***************************************************************************)
(* Model of main.py, the LoPy LoRaWAN connectivity test script: the join   *)
(* phase (OTAA with polling, or ABP with five extra channels), the uplink  *)
(* loop, the LED signaller flash_led and the callback event_handler that   *)
(* the radio stack runs on its own thread.  The radio stack itself (join   *)
(* completion, transmit results, downlinks, callback delivery) is the      *)
(* environment.                                                            *)
(***************************************************************************)
EXTENDS Integers, Sequences, FiniteSets, TLC

\* ---- program constants (main.py lines 17-41) ----
LED_OFF == 0
LED_BLUE == 255
LED_GREEN == 65280
LED_RED == 16711680
LED_YELLOW == 8355584
LED_PINK == 16711816
OTAA_JOIN_TIMEOUT == 30

\* event bits of the LoRa class as main.py uses them
RX_PACKET_EVENT == 1
TX_PACKET_EVENT == 2
TX_FAILED_EVENT == 4

\* argument of s.recvfrom, number of idle flashes
RECV_MAX == 64
IDLE_FLASHES == 29

\* ---- bounds of the model ----
\* largest repeat argument of a flash_led call examined on its own
MaxRepeat == 2
\* cycles of the uplink loop explored with the radio stack and the callback
MaxCycles == 2
\* cycles of the uplink loop explored with a silent radio stack
MaxCount == 257
\* extra milliseconds one pass of the join-poll loop may take (print, calls)
MaxOverhead == 1
\* callbacks the radio stack may have queued and not yet run
MaxQueued == 2

VARIABLES
    LORA_ACK,     \* configuration: request an ACK for every uplink
    LORA_OTAA,    \* configuration: OTAA (TRUE) or ABP (FALSE)
    pc,           \* position of the main script
    mflash,       \* the main script's flash_led call: color, on, pause, repeat,
                  \* passes left, rgbled calls made, where it returns to
    counter,      \* transmission counter
    RX_EVENT,     \* the receive/ack flag shared with event_handler
    flagFor,      \* newest cycle whose event made event_handler set the flag
                  \* since the flag was last cleared, 0 if none
    led,          \* colour the RGB LED shows
    joined,       \* what lora.has_joined() returns
    activation,   \* activation passed to lora.join, "none" before the call
    joinCalls,    \* number of lora.join calls made
    channels,     \* channel indices registered with lora.add_channel
    otaa_timer,   \* seconds counted by the poll loop
    start_join,   \* utime.ticks_ms() at the start of polling
    now,          \* utime.ticks_ms(), advanced while the poll loop runs
    joinLog,      \* what the join phase printed: "none", "ok", "failed"
    trigger,      \* trigger mask of the registered callback, 0 if none
    payload,      \* byte handed to s.send by the last send, -1 before
    rx_len,       \* len(rx_pkt) of this cycle's recvfrom
    outcome,      \* classification printed by this cycle
    cycleLog,     \* send result, recv, classify of this cycle, until it goes idle
    txWait,       \* cycle whose uplink awaits its transmit result, 0 if none
    dlOpen,       \* cycle whose receive windows are still open, 0 if none
    rxbuf,        \* length of the downlink payload held by the socket
    events,       \* event bits pending in the radio stack
    evFor,        \* newest cycle with a transmit- or receive-complete event
                  \* pending, 0 if none
    cbQueued,     \* callbacks queued by the radio stack
    h_pc,         \* position of event_handler
    hEvents,      \* event_handler's local events
    hFor,         \* newest cycle with a complete event in hEvents, 0 if none
    hMsgBound,    \* event_handler's local msg has been assigned
    hMsg,         \* parts of event_handler's local msg
    hflash,       \* event_handler's flash_led call: color, on, pause, left
    hLines,       \* lines printed by this invocation of event_handler
    hFlashCalls,  \* flash_led calls (as their pulse counts) of this invocation
    hLedWrites,   \* pycom.rgbled calls of this invocation
    hFlagSet,     \* this invocation assigned RX_EVENT
    hRaised       \* this invocation ended in an exception

cfgVars == <<LORA_ACK, LORA_OTAA>>
joinVars == <<joined, activation, joinCalls, channels, otaa_timer, start_join, now, joinLog>>
loopVars == <<counter, payload, rx_len, outcome, cycleLog>>
stackVars == <<txWait, dlOpen, rxbuf, events, evFor, cbQueued, trigger>>
flagVars == <<RX_EVENT, flagFor>>
hLocals == <<h_pc, hEvents, hFor, hMsgBound, hMsg, hflash, hLines, hFlashCalls, hLedWrites, hFlagSet, hRaised>>
vars == <<LORA_ACK, LORA_OTAA, pc, mflash, counter, RX_EVENT, flagFor, evFor, hFor, led, joined, activation,
          joinCalls, channels, otaa_timer, start_join, now, joinLog, trigger, payload,
          rx_len, outcome, cycleLog, txWait, dlOpen, rxbuf, events, cbQueued, h_pc,
          hEvents, hMsgBound, hMsg, hflash, hLines, hFlashCalls, hLedWrites, hFlagSet,
          hRaised>>

NoFlash == [color |-> LED_OFF, on |-> 0, pause |-> 0, repeat |-> 0, left |-> 0,
            writes |-> 0, ret |-> "none"]
NoHFlash == [color |-> LED_OFF, on |-> 0, pause |-> 0, left |-> 0]

\* the arguments of a flash_led call, bound on entry to the for loop of line 69
FlashCall(color, on, pause, repeat, ret) ==
    [color |-> color, on |-> on, pause |-> pause, repeat |-> repeat, left |-> repeat,
     writes |-> 0, ret |-> ret]

\* lines 104-108: the five channels the ABP branch registers
FiveChannels == [i \in 1..5 |-> [index |-> i + 2, dr_min |-> 0, dr_max |-> 5]]

\* ---- helpers ----
\* events & bit
HasBit(e, b) == (e \div b) % 2 = 1

\* events |= bit, as the radio stack records an event
SetBit(e, b) == IF HasBit(e, b) THEN e ELSE e + b

\* a handler without the early return of line 54
NoEventsNever(ev) == ev < 0

\* line 53: if events == 0
NoEvents(ev) == ev = 0

\* line 59 without the test of LORA_ACK
AckCondIgnoresAck(ev, ack) ==
    HasBit(ev, TX_PACKET_EVENT) \/ HasBit(ev, RX_PACKET_EVENT)

\* line 59 reduced to the receive event
AckCondRxOnly(ev, ack) == HasBit(ev, RX_PACKET_EVENT)

\* line 59: events & TX_PACKET_EVENT and LORA_ACK or events & RX_PACKET_EVENT
AckCond(ev, ack) ==
    (HasBit(ev, TX_PACKET_EVENT) /\ ack) \/ HasBit(ev, RX_PACKET_EVENT)

\* line 64: events & TX_FAILED_EVENT
FailedCond(ev) == HasBit(ev, TX_FAILED_EVENT)

\* line 89: int(utime.ticks_diff(utime.ticks_ms(), start_join)/1000)
ElapsedSeconds(t, start) == (t - start) \div 1000

\* line 88: not lora.has_joined() and otaa_timer < OTAA_JOIN_TIMEOUT
PollGuard(j, timer) == ~j /\ timer < OTAA_JOIN_TIMEOUT

\* lines 140-145 with the length test of line 140 dropped
ClassifyFlagOnly(flag, len) ==
    IF flag THEN "Acked"
    ELSE IF len > 0 THEN "DownlinkReceived"
    ELSE "NoDownlink"

\* lines 140-145: the if / elif / else that classifies a cycle
Classify(flag, len) ==
    IF flag /\ len = 0 THEN "Acked"
    ELSE IF len > 0 THEN "DownlinkReceived"
    ELSE "NoDownlink"

\* line 133: bytes([counter]) accepts 0..255 only
BytesInRange(c) == c >= 0 /\ c <= 255

Init ==
    /\ LORA_ACK \in BOOLEAN
    /\ LORA_OTAA \in BOOLEAN
    /\ pc = "join"
    /\ mflash = NoFlash
    /\ counter = 0
    /\ RX_EVENT = FALSE
    /\ flagFor = 0
    /\ hFor = 0
    /\ led = LED_OFF
    /\ joined = FALSE
    /\ activation = "none"
    /\ joinCalls = 0
    /\ channels = <<>>
    /\ otaa_timer = 0
    /\ start_join = 0
    /\ now = 0
    /\ joinLog = "none"
    /\ trigger = 0
    /\ payload = -1
    /\ rx_len = 0
    /\ outcome = "none"
    /\ cycleLog = <<>>
    /\ txWait = 0
    /\ dlOpen = 0
    /\ rxbuf = 0
    /\ events = 0
    /\ evFor = 0
    /\ cbQueued = 0
    /\ h_pc = "idle"
    /\ hEvents = 0
    /\ hMsgBound = FALSE
    /\ hMsg = <<>>
    /\ hflash = NoHFlash
    /\ hLines = <<>>
    /\ hFlashCalls = <<>>
    /\ hLedWrites = 0
    /\ hFlagSet = FALSE
    /\ hRaised = FALSE

\* ---- flash_led, lines 67-73, as run by the main script ----
\* the call: bind the arguments and enter the for loop
CallFlash(color, on, pause, repeat, ret) ==
    /\ mflash' = FlashCall(color, on, pause, repeat, ret)
    /\ pc' = "flash_on"

\* the clock is read by the poll loop only; it advances while that loop runs
Tick(dt) == IF mflash.ret = "poll" THEN now + dt ELSE now

\* lines 69-71: next pass of the for loop, or return when range is exhausted
FlashOn ==
    /\ pc = "flash_on"
    /\ IF mflash.left = 0
       THEN /\ pc' = mflash.ret
            /\ mflash' = NoFlash
            /\ UNCHANGED <<led, now>>
       ELSE /\ led' = mflash.color
            /\ now' = Tick(mflash.on)
            /\ pc' = "flash_off"
            /\ mflash' = [mflash EXCEPT !.writes = @ + 1]
    /\ UNCHANGED <<cfgVars, loopVars, stackVars, hLocals, flagVars, joined, activation,
                   joinCalls, channels, otaa_timer, start_join, joinLog>>

\* lines 72-73 with the LED left in the flash colour
FlashOffKeepsColor ==
    /\ pc = "flash_off"
    /\ led' = mflash.color
    /\ now' = Tick(mflash.pause)
    /\ mflash' = [mflash EXCEPT !.left = @ - 1, !.writes = @ + 1]
    /\ pc' = "flash_on"
    /\ UNCHANGED <<cfgVars, loopVars, stackVars, hLocals, flagVars, joined, activation,
                   joinCalls, channels, otaa_timer, start_join, joinLog>>

\* lines 72-73
FlashOff ==
    /\ pc = "flash_off"
    /\ led' = LED_OFF
    /\ now' = Tick(mflash.pause)
    /\ mflash' = [mflash EXCEPT !.left = @ - 1, !.writes = @ + 1]
    /\ pc' = "flash_on"
    /\ UNCHANGED <<cfgVars, loopVars, stackVars, hLocals, flagVars, joined, activation,
                   joinCalls, channels, otaa_timer, start_join, joinLog>>

\* ---- join phase, lines 80-108 ----
\* lines 81-87 (OTAA) and 99-103 (ABP): the one lora.join call
Join ==
    /\ pc = "join"
    /\ joinCalls' = joinCalls + 1
    /\ IF LORA_OTAA
       THEN /\ activation' = "OTAA"
            /\ otaa_timer' = 0
            /\ start_join' = now
            /\ joined' = joined
            /\ pc' = "poll"
       ELSE /\ activation' = "ABP"
            /\ joined' = TRUE
            /\ pc' = "abp_ch"
            /\ UNCHANGED <<otaa_timer, start_join>>
    /\ UNCHANGED <<cfgVars, loopVars, stackVars, hLocals, mflash, flagVars, led,
                   channels, now, joinLog>>

\* lines 104-108 with the last add_channel call missing
AddChannelFour ==
    /\ pc = "abp_ch"
    /\ channels' = Append(channels, [index |-> 3 + Len(channels), dr_min |-> 0, dr_max |-> 5])
    /\ pc' = IF Len(channels) = 3 THEN "socket" ELSE "abp_ch"
    /\ UNCHANGED <<cfgVars, loopVars, stackVars, hLocals, mflash, flagVars, led, joined,
                   activation, joinCalls, otaa_timer, start_join, now, joinLog>>

\* lines 104-108: lora.add_channel(3..7, dr_min=0, dr_max=5), one call per step
AddChannel ==
    /\ pc = "abp_ch"
    /\ channels' = Append(channels, [index |-> 3 + Len(channels), dr_min |-> 0, dr_max |-> 5])
    /\ pc' = IF Len(channels) = 4 THEN "socket" ELSE "abp_ch"
    /\ UNCHANGED <<cfgVars, loopVars, stackVars, hLocals, mflash, flagVars, led, joined,
                   activation, joinCalls, otaa_timer, start_join, now, joinLog>>

\* lines 88-91: one evaluation of the while condition and, when it holds, the
\* body up to the flash_led call; d is the time the pass spends outside sleep
Poll ==
    /\ pc = "poll"
    /\ IF PollGuard(joined, otaa_timer)
       THEN /\ otaa_timer' = ElapsedSeconds(now, start_join)
            /\ mflash' = FlashCall(LED_BLUE, 100, 900, 1, "poll")
            /\ pc' = "flash_on"
            /\ \E d \in 0..MaxOverhead : now' = now + d
       ELSE /\ pc' = "join_result"
            /\ UNCHANGED <<otaa_timer, mflash, now>>
    /\ UNCHANGED <<cfgVars, loopVars, stackVars, hLocals, flagVars, led, joined,
                   activation, joinCalls, channels, start_join, joinLog>>

\* lines 92-97 with a second lora.join call after the timeout
JoinResultRetries ==
    /\ pc = "join_result"
    /\ IF joined
       THEN /\ joinLog' = "ok"
            /\ CallFlash(LED_BLUE, 1000, 1000, 1, "socket")
            /\ UNCHANGED joinCalls
       ELSE /\ joinLog' = "failed"
            /\ joinCalls' = joinCalls + 1
            /\ CallFlash(LED_RED, 1000, 1000, 1, "socket")
    /\ otaa_timer' = 0
    /\ start_join' = 0
    /\ now' = 0
    /\ UNCHANGED <<cfgVars, loopVars, stackVars, hLocals, flagVars, led, joined,
                   activation, channels>>

\* lines 92-97: report the result; the clock and the timer are dead from here
JoinResult ==
    /\ pc = "join_result"
    /\ IF joined
       THEN /\ joinLog' = "ok"
            /\ CallFlash(LED_BLUE, 1000, 1000, 1, "socket")
       ELSE /\ joinLog' = "failed"
            /\ CallFlash(LED_RED, 1000, 1000, 1, "socket")
    /\ otaa_timer' = 0
    /\ start_join' = 0
    /\ now' = 0
    /\ UNCHANGED <<cfgVars, loopVars, stackVars, hLocals, flagVars, led, joined,
                   activation, joinCalls, channels>>

\* lines 111-117: create the socket, set data rate and confirmed mode
Socket ==
    /\ pc = "socket"
    /\ pc' = "callback"
    /\ UNCHANGED <<cfgVars, joinVars, loopVars, stackVars, hLocals, mflash, flagVars, led>>

\* line 120: lora.callback(trigger=RX_PACKET_EVENT|TX_PACKET_EVENT, handler=event_handler)
Callback ==
    /\ pc = "callback"
    /\ trigger' = SetBit(SetBit(0, RX_PACKET_EVENT), TX_PACKET_EVENT)
    /\ pc' = "loop"
    /\ UNCHANGED <<cfgVars, joinVars, loopVars, hLocals, mflash, flagVars, led,
                   txWait, dlOpen, rxbuf, events, evFor, cbQueued>>

\* ---- uplink loop, lines 123-151 ----
\* line 124: while True and lora.has_joined(); cap bounds the cycles explored
LoopGuard(cap) ==
    /\ pc = "loop"
    /\ joined => counter < cap
    /\ pc' = IF joined THEN "cycle" ELSE "end"
    /\ UNCHANGED <<cfgVars, joinVars, loopVars, stackVars, hLocals, mflash, flagVars, led>>

\* line 151: pycom.rgbled(LED_RED) after the loop
End ==
    /\ pc = "end"
    /\ led' = LED_RED
    /\ pc' = "done"
    /\ UNCHANGED <<cfgVars, joinVars, loopVars, stackVars, hLocals, mflash, flagVars>>

\* lines 125-132: count, clear the flag, announce, flash green twice
CycleStart ==
    /\ pc = "cycle"
    /\ counter' = counter + 1
    /\ RX_EVENT' = FALSE
    /\ flagFor' = 0
    /\ outcome' = "none"
    /\ cycleLog' = <<>>
    /\ CallFlash(LED_GREEN, 100, 300, 2, "send")
    /\ UNCHANGED <<cfgVars, joinVars, stackVars, hLocals, led, payload, rx_len>>

\* line 133, the call: bytes([counter]) raises ValueError outside 0..255, which
\* no except clause catches; otherwise the byte goes to the radio stack
SendCall ==
    /\ pc = "send"
    /\ IF BytesInRange(counter)
       THEN /\ payload' = counter
            /\ txWait' = counter
            /\ dlOpen' = counter
            /\ pc' = "sending"
       ELSE /\ pc' = "crashed"
            /\ UNCHANGED <<payload, txWait, dlOpen>>
    /\ UNCHANGED <<cfgVars, joinVars, hLocals, mflash, flagVars, led, counter,
                   rx_len, outcome, cycleLog, rxbuf, events, evFor, cbQueued, trigger>>

\* lines 133-134: s.send returns, "OK." is printed
SendOk ==
    /\ pc = "sending"
    /\ cycleLog' = Append(cycleLog, "ok")
    /\ pc' = "recv"
    /\ UNCHANGED <<cfgVars, joinVars, stackVars, hLocals, mflash, flagVars, led, counter,
                   payload, rx_len, outcome>>

\* lines 135-137 followed by a continue: the timeout skips the rest of the cycle
SendTimeoutAborts ==
    /\ pc = "sending"
    /\ cycleLog' = Append(cycleLog, "timeout")
    /\ CallFlash(LED_RED, 1000, 1000, 2, "loop")
    /\ UNCHANGED <<cfgVars, joinVars, stackVars, hLocals, flagVars, led, counter,
                   payload, rx_len, outcome>>

\* lines 135-137: s.send raises socket.timeout; flash red twice, print "Timeout!"
SendTimeout ==
    /\ pc = "sending"
    /\ cycleLog' = Append(cycleLog, "timeout")
    /\ CallFlash(LED_RED, 1000, 1000, 2, "recv")
    /\ UNCHANGED <<cfgVars, joinVars, stackVars, hLocals, flagVars, led, counter,
                   payload, rx_len, outcome>>

\* lines 138-139: non-blocking recvfrom(64) takes what the socket holds
Recv ==
    /\ pc = "recv"
    /\ rx_len' = IF rxbuf > RECV_MAX THEN RECV_MAX ELSE rxbuf
    /\ rxbuf' = 0
    /\ cycleLog' = Append(cycleLog, "recv")
    /\ pc' = "classify"
    /\ UNCHANGED <<cfgVars, joinVars, hLocals, mflash, flagVars, led, counter, payload,
                   outcome, txWait, dlOpen, events, evFor, cbQueued, trigger>>

\* lines 140-145
ClassifyStep ==
    /\ pc = "classify"
    /\ outcome' = Classify(RX_EVENT, rx_len)
    /\ cycleLog' = Append(cycleLog, "classify")
    /\ pc' = "idle"
    /\ UNCHANGED <<cfgVars, joinVars, stackVars, hLocals, mflash, flagVars, led, counter,
                   payload, rx_len>>

\* lines 147-149: sleep one second, announce, flash yellow 29 times
Idle ==
    /\ pc = "idle"
    /\ cycleLog' = <<>>
    /\ CallFlash(LED_YELLOW, 200, 800, IDLE_FLASHES, "loop")
    /\ UNCHANGED <<cfgVars, joinVars, stackVars, hLocals, flagVars, led, counter, payload,
                   rx_len, outcome>>

\* ---- the radio stack ----
\* an event of the uplink of the given cycle is recorded; a callback is queued
\* when the trigger mask has the bit
Raise(bit, cycle) ==
    /\ events' = SetBit(events, bit)
    /\ evFor' = IF bit \in {TX_PACKET_EVENT, RX_PACKET_EVENT} THEN cycle ELSE evFor
    /\ cbQueued' = IF HasBit(trigger, bit) THEN cbQueued + 1 ELSE cbQueued

\* OTAA join was called with timeout=0: the stack keeps trying and may
\* complete the join at any moment
StackJoin ==
    /\ activation = "OTAA"
    /\ ~joined
    /\ joined' = TRUE
    /\ UNCHANGED <<cfgVars, loopVars, stackVars, hLocals, pc, mflash, flagVars, led,
                   activation, joinCalls, channels, otaa_timer, start_join, now, joinLog>>

\* the uplink handed over by s.send completes or fails
StackTxDone ==
    /\ txWait # 0
    /\ cbQueued < MaxQueued
    /\ \E bit \in {TX_PACKET_EVENT, TX_FAILED_EVENT} : Raise(bit, txWait)
    /\ txWait' = 0
    /\ UNCHANGED <<cfgVars, joinVars, loopVars, hLocals, pc, mflash, flagVars, led,
                   dlOpen, rxbuf, trigger>>

\* a downlink arrives in a receive window of the last uplink; its payload is
\* one byte long (the script only tells an empty receive from a non-empty one)
StackDownlink ==
    /\ dlOpen # 0
    /\ cbQueued < MaxQueued
    /\ rxbuf' = 1
    /\ Raise(RX_PACKET_EVENT, dlOpen)
    /\ dlOpen' = 0
    /\ UNCHANGED <<cfgVars, joinVars, loopVars, hLocals, pc, mflash, flagVars, led,
                   txWait, trigger>>

\* ---- event_handler, lines 49-65, on the callback thread ----
\* lines 52-58: read and clear the pending events; return when there are
\* none; otherwise read the stats and compose the TX part of msg
HInvoke ==
    /\ h_pc = "idle"
    /\ cbQueued > 0
    /\ cbQueued' = cbQueued - 1
    /\ hEvents' = events
    /\ events' = 0
    /\ hFor' = evFor
    /\ evFor' = 0
    /\ IF NoEvents(events)
       THEN /\ h_pc' = "ret"
            /\ UNCHANGED <<hMsgBound, hMsg>>
       ELSE /\ h_pc' = "cond"
            /\ hMsgBound' = HasBit(events, TX_PACKET_EVENT)
            /\ hMsg' = IF HasBit(events, TX_PACKET_EVENT) THEN <<"TX">> ELSE <<>>
    /\ UNCHANGED <<cfgVars, joinVars, loopVars, pc, mflash, flagVars, led, txWait, dlOpen,
                   rxbuf, trigger, hflash, hLines, hFlashCalls, hLedWrites, hFlagSet, hRaised>>

\* lines 59-62: msg += RX part (NameError when msg was never assigned), set the
\* flag, call flash_led(LED_PINK, 0.1, 0.3, 2)
HCond ==
    /\ h_pc = "cond"
    /\ IF AckCond(hEvents, LORA_ACK)
       THEN IF hMsgBound
            THEN /\ hMsg' = Append(hMsg, "RX")
                 /\ RX_EVENT' = TRUE
                 /\ flagFor' = IF hFor > flagFor THEN hFor ELSE flagFor
                 /\ hFlagSet' = TRUE
                 /\ hflash' = [color |-> LED_PINK, on |-> 100, pause |-> 300, left |-> 2]
                 /\ hFlashCalls' = Append(hFlashCalls, 2)
                 /\ h_pc' = "flash_on"
                 /\ UNCHANGED hRaised
            ELSE /\ hRaised' = TRUE
                 /\ h_pc' = "ret"
                 /\ UNCHANGED <<hMsg, flagVars, hFlagSet, hflash, hFlashCalls>>
       ELSE /\ h_pc' = "print"
            /\ UNCHANGED <<hMsg, flagVars, hFlagSet, hflash, hFlashCalls, hRaised>>
    /\ UNCHANGED <<cfgVars, joinVars, loopVars, stackVars, pc, mflash, led, hEvents,
                   hFor, hMsgBound, hLines, hLedWrites>>

\* lines 69-71 of flash_led as run by event_handler
HFlashOn ==
    /\ h_pc = "flash_on"
    /\ IF hflash.left = 0
       THEN /\ h_pc' = "print"
            /\ hflash' = NoHFlash
            /\ UNCHANGED <<led, hLedWrites>>
       ELSE /\ led' = hflash.color
            /\ hLedWrites' = hLedWrites + 1
            /\ h_pc' = "flash_off"
            /\ UNCHANGED hflash
    /\ UNCHANGED <<cfgVars, joinVars, loopVars, stackVars, pc, mflash, flagVars, hEvents,
                   hFor, hMsgBound, hMsg, hLines, hFlashCalls, hFlagSet, hRaised>>

\* lines 72-73 of flash_led as run by event_handler
HFlashOff ==
    /\ h_pc = "flash_off"
    /\ led' = LED_OFF
    /\ hLedWrites' = hLedWrites + 1
    /\ hflash' = [hflash EXCEPT !.left = @ - 1]
    /\ h_pc' = "flash_on"
    /\ UNCHANGED <<cfgVars, joinVars, loopVars, stackVars, pc, mflash, flagVars, hEvents,
                   hFor, hMsgBound, hMsg, hLines, hFlashCalls, hFlagSet, hRaised>>

\* lines 63-65: print(msg) (NameError when msg was never assigned), then the
\* no-ACK warning when the transmit-failed bit is set
HPrint ==
    /\ h_pc = "print"
    /\ IF hMsgBound
       THEN /\ hLines' = IF FailedCond(hEvents)
                         THEN <<hMsg, <<"WARN">>>>
                         ELSE <<hMsg>>
            /\ UNCHANGED hRaised
       ELSE /\ hRaised' = TRUE
            /\ UNCHANGED hLines
    /\ h_pc' = "ret"
    /\ UNCHANGED <<cfgVars, joinVars, loopVars, stackVars, pc, mflash, flagVars, led,
                   hEvents, hFor, hMsgBound, hMsg, hflash, hFlashCalls, hLedWrites, hFlagSet>>

\* the invocation is over (by return or by the exception, which the callback
\* thread reports without stopping the main script); its locals are gone
HReturn ==
    /\ h_pc = "ret"
    /\ h_pc' = "idle"
    /\ hEvents' = 0
    /\ hFor' = 0
    /\ hMsgBound' = FALSE
    /\ hMsg' = <<>>
    /\ hflash' = NoHFlash
    /\ hLines' = <<>>
    /\ hFlashCalls' = <<>>
    /\ hLedWrites' = 0
    /\ hFlagSet' = FALSE
    /\ hRaised' = FALSE
    /\ UNCHANGED <<cfgVars, joinVars, loopVars, stackVars, pc, mflash, flagVars, led>>

\* ---- specifications ----
\* the main script alone
MainStep(cap) ==
    \/ Join
    \/ AddChannel
    \/ Poll
    \/ JoinResult
    \/ Socket
    \/ Callback
    \/ LoopGuard(cap)
    \/ End
    \/ CycleStart
    \/ SendCall
    \/ SendOk
    \/ SendTimeout
    \/ Recv
    \/ ClassifyStep
    \/ Idle
    \/ FlashOn
    \/ FlashOff

\* the script, the radio stack and the callback thread
Next ==
    \/ MainStep(MaxCycles)
    \/ StackJoin
    \/ StackTxDone
    \/ StackDownlink
    \/ HInvoke
    \/ HCond
    \/ HFlashOn
    \/ HFlashOff
    \/ HPrint
    \/ HReturn

Spec == Init /\ [][Next]_vars

\* the script with a radio stack that joins but reports no transmit result
\* and delivers no downlink, for many cycles
NextCount ==
    \/ MainStep(MaxCount)
    \/ StackJoin

SpecCount == Init /\ [][NextCount]_vars

\* flash_led on its own: the main script, in its first cycle of an ABP run,
\* calls it with any colour and any repeat from 0 up, while the radio stack
\* may have events pending and a callback queued for event_handler
InitFlash ==
    /\ LORA_ACK \in BOOLEAN
    /\ LORA_OTAA = FALSE
    /\ pc = "flash_on"
    /\ \E color \in {LED_BLUE, LED_GREEN, LED_RED, LED_YELLOW}, repeat \in 0..MaxRepeat :
           mflash = FlashCall(color, 100, 300, repeat, "done")
    /\ counter = 1
    /\ RX_EVENT = FALSE
    /\ flagFor = 0
    /\ hFor = 0
    /\ led = LED_OFF
    /\ joined = TRUE
    /\ activation = "ABP"
    /\ joinCalls = 1
    /\ channels = FiveChannels
    /\ otaa_timer = 0
    /\ start_join = 0
    /\ now = 0
    /\ joinLog = "none"
    /\ trigger = SetBit(SetBit(0, RX_PACKET_EVENT), TX_PACKET_EVENT)
    /\ payload = 1
    /\ rx_len = 0
    /\ outcome = "none"
    /\ cycleLog = <<>>
    /\ txWait = 0
    /\ dlOpen = 0
    /\ rxbuf = 0
    /\ events \in 0..7
    /\ evFor = (IF HasBit(events, RX_PACKET_EVENT) \/ HasBit(events, TX_PACKET_EVENT)
                THEN 1 ELSE 0)
    /\ cbQueued \in 0..1
    /\ h_pc = "idle"
    /\ hEvents = 0
    /\ hMsgBound = FALSE
    /\ hMsg = <<>>
    /\ hflash = NoHFlash
    /\ hLines = <<>>
    /\ hFlashCalls = <<>>
    /\ hLedWrites = 0
    /\ hFlagSet = FALSE
    /\ hRaised = FALSE

NextFlash ==
    \/ FlashOn
    \/ FlashOff
    \/ HInvoke
    \/ HCond
    \/ HFlashOn
    \/ HFlashOff
    \/ HPrint
    \/ HReturn

SpecFlash == InitFlash /\ [][NextFlash]_vars

\* ---- properties ----
LoopPcs == {"cycle", "send", "sending", "recv", "classify", "idle"}

\* C1: in the uplink loop the byte handed to s.send is the cycle number
\* modulo 256 for every cycle, and the loop survives cycle 256 (byte 0) to go
\* on with cycle 257: the script never dies in the send.
C1_ByteIsCounterMod256 ==
    /\ pc = "sending" => payload = counter % 256
    /\ pc # "crashed"

\* C2: the step that classifies a cycle yields exactly one of the three
\* outcomes: Acked iff the flag is set and the receive was empty,
\* DownlinkReceived iff the receive was non-empty (whatever the flag),
\* NoDownlink iff the flag is clear and the receive was empty.
C2_ClassifiedExactlyOnce ==
    [][(pc = "classify" /\ pc' = "idle") =>
          /\ outcome' \in {"Acked", "DownlinkReceived", "NoDownlink"}
          /\ (outcome' = "Acked") <=> (RX_EVENT /\ rx_len = 0)
          /\ (outcome' = "DownlinkReceived") <=> (rx_len > 0)
          /\ (outcome' = "NoDownlink") <=> (~RX_EVENT /\ rx_len = 0)]_vars

\* a cycle classified DownlinkReceived although the flag is set
C2_Witness ==
    pc = "idle" /\ outcome = "DownlinkReceived" /\ RX_EVENT /\ rx_len > 0 /\ hFlagSet

\* C3: once the join phase has printed "timeout, failed!" the uplink loop is
\* never entered and nothing is ever handed to s.send.
C3_JoinFailureTerminal ==
    joinLog = "failed" => (counter = 0 /\ payload = -1 /\ pc \notin LoopPcs)

\* C4: when the poll loop is left without a join, at most the timeout plus one
\* poll interval of one second has elapsed since polling started.
C4_PollWithinTimeoutPlusInterval ==
    (pc = "join_result" /\ ~joined) =>
        now - start_join <= 1000 * OTAA_JOIN_TIMEOUT + 1000

\* C5: an invocation of event_handler that reads an event mask of 0 returns
\* without printing, without touching the LED or calling flash_led, without
\* assigning the flag and without raising.
C5_NoEventsNoop ==
    (h_pc = "ret" /\ hEvents = 0) =>
        /\ hLines = <<>>
        /\ hLedWrites = 0
        /\ hFlashCalls = <<>>
        /\ ~hFlagSet
        /\ ~hRaised

\* event_handler has returned from an invocation that found no event pending
C5_Witness == h_pc = "ret" /\ hEvents = 0 /\ ~hRaised /\ cbQueued = 0

\* C6: with only transmit-complete in the mask and ACK requests disabled,
\* event_handler prints exactly one line, the TX stats, and does not flash.
C6_TxOnlyNoAck ==
    (h_pc = "ret" /\ hEvents = TX_PACKET_EVENT /\ ~LORA_ACK) =>
        /\ hLines = << <<"TX">> >>
        /\ hFlashCalls = <<>>
        /\ hLedWrites = 0

\* event_handler has handled a lone transmit-complete event without ACK mode
C6_Witness ==
    h_pc = "ret" /\ hEvents = TX_PACKET_EVENT /\ ~LORA_ACK /\ Len(hLines) = 1

\* a printed line that holds both the TX and the RX stats
IsTxRxLine(l) == l = <<"TX", "RX">>

\* C7: with transmit-complete in the mask and ACK requested, event_handler
\* prints one line holding both TX and RX stats and makes exactly one
\* flash_led call, of two pulses.
C7_TxWithAck ==
    (h_pc = "ret" /\ HasBit(hEvents, TX_PACKET_EVENT) /\ LORA_ACK) =>
        /\ Len(SelectSeq(hLines, IsTxRxLine)) = 1
        /\ hFlashCalls = <<2>>
        /\ hLedWrites = 4

\* event_handler has handled a lone transmit-complete event in ACK mode
C7_Witness ==
    h_pc = "ret" /\ hEvents = TX_PACKET_EVENT /\ LORA_ACK /\ hFlagSet

\* C8: no invocation of event_handler ends in an exception.
C8_NeverRaises == ~hRaised

\* C9: every invocation of event_handler with a non-zero mask prints exactly
\* one line.
C9_OneLinePerInvocation ==
    (h_pc = "ret" /\ hEvents # 0) => Len(hLines) = 1

\* a printed line that is the no-ACK warning
IsWarnLine(l) == l = <<"WARN">>

\* C10: every invocation of event_handler whose mask has the transmit-failed
\* bit prints the no-ACK warning, whatever other bits are set.
C10_FailedAlwaysWarned ==
    (h_pc = "ret" /\ HasBit(hEvents, TX_FAILED_EVENT)) =>
        Len(SelectSeq(hLines, IsWarnLine)) = 1

\* C11: a send that times out does not abort the cycle: after either send
\* result the cycle makes exactly one recvfrom and then exactly one
\* classification before it goes idle, a cycle is never left unclassified, and
\* every new cycle, also the one after a timeout, counts one further.
C11_TimeoutKeepsCycle ==
    [][/\ (pc' = "recv") => cycleLog' \in {<<"ok">>, <<"timeout">>}
       /\ (pc' = "idle") =>
            cycleLog' \in {<<"ok", "recv", "classify">>, <<"timeout", "recv", "classify">>}
       /\ (pc' \in {"loop", "cycle"} /\ counter' > 0) =>
            (outcome' # "none" /\ cycleLog' = <<>>)
       /\ (pc = "cycle" /\ pc' # "cycle") => counter' = counter + 1]_vars

\* the second cycle has timed out in its send and has been classified
C11_Witness ==
    pc = "idle" /\ counter = 2 /\ cycleLog = <<"timeout", "recv", "classify">>

\* C12: once the uplink loop has been entered and the join status is true the
\* script never leaves the loop, neither by the loop guard nor by dying.
C12_LoopNeverEnds ==
    (counter >= 1 /\ joined) => pc \notin {"crashed", "end", "done"}

\* C13: lora.join is called exactly once, with the activation the
\* configuration selects, before anything is handed to s.send, and never again.
C13_JoinExactlyOnce ==
    /\ joinCalls <= 1
    /\ pc # "join" => joinCalls = 1
    /\ pc = "join" => (joinCalls = 0 /\ activation = "none" /\ payload = -1 /\ counter = 0)
    /\ joinCalls = 1 => activation = (IF LORA_OTAA THEN "OTAA" ELSE "ABP")

\* the join has timed out, the script has ended, and join was called once
C13_Witness ==
    pc = "done" /\ joinLog = "failed" /\ ~joined /\ joinCalls = 1

\* C14: an invocation of event_handler with a non-zero mask assigns the flag
\* and makes the pink double flash if and only if the mask has the
\* receive-complete bit, or the transmit-complete bit while ACK is requested.
C14_FlagIffAckOrReceive ==
    (h_pc = "ret" /\ hEvents # 0) =>
        /\ hFlagSet <=> (HasBit(hEvents, RX_PACKET_EVENT)
                         \/ (HasBit(hEvents, TX_PACKET_EVENT) /\ LORA_ACK))
        /\ (hFlashCalls = <<2>>) <=> hFlagSet

\* C15: in ABP mode the join call is followed by add_channel for the indices
\* 3 to 7 with data rates 0 to 5, all five before the socket is created, the
\* callback registered or anything sent, and the join is never polled; in OTAA
\* mode no channel is registered.
C15_AbpFiveChannels ==
    /\ LORA_OTAA => channels = <<>>
    /\ ~LORA_OTAA =>
        /\ pc \notin {"poll", "join_result"}
        /\ joinLog = "none"
        /\ pc = "join" => channels = <<>>
        /\ pc = "abp_ch" =>
             (joinCalls = 1 /\ Len(channels) < 5 /\ channels = SubSeq(FiveChannels, 1, Len(channels)))
        /\ pc \notin {"join", "abp_ch"} => channels = FiveChannels
        /\ channels # FiveChannels => (payload = -1 /\ trigger = 0 /\ counter = 0)

\* an ABP run is sending its first uplink with the five channels registered
C15_Witness ==
    ~LORA_OTAA /\ pc = "sending" /\ counter = 1 /\ Len(channels) = 5 /\ activation = "ABP"

\* the main script's flash_led call has finished its for loop and returns
MainFlashReturns == pc = "flash_on" /\ mflash.left = 0

\* event_handler's flash_led call has finished its for loop and returns
HandlerFlashReturns == h_pc = "flash_on" /\ hflash.left = 0

\* C16 as claimed: a flash_led call makes exactly repeat passes of (LED to
\* color, LED off), so none for repeat = 0, and for repeat >= 1 the LED is off
\* when the call returns, also when the other thread's call interleaves.
C16_LedOffAtReturn ==
    /\ MainFlashReturns =>
         (mflash.writes = 2 * mflash.repeat /\ (mflash.repeat >= 1 => led = LED_OFF))
    /\ HandlerFlashReturns => (hLedWrites = 4 /\ led = LED_OFF)

\* C16 as amended: a flash_led call makes exactly repeat passes of (LED to
\* color, LED off), so none for repeat = 0; when a call with repeat >= 1
\* returns the LED is off, or it shows the colour of the other thread's
\* flash_led call, which has lit it since and not yet switched it off.
C16_LedOffOrOtherFlash ==
    /\ MainFlashReturns =>
         /\ mflash.writes = 2 * mflash.repeat
         /\ mflash.repeat >= 1 =>
              (led = LED_OFF \/ (h_pc = "flash_off" /\ led = hflash.color))
    /\ HandlerFlashReturns =>
         /\ hLedWrites = 4
         /\ led = LED_OFF \/ (pc = "flash_off" /\ led = mflash.color)

\* the main script's call returns while event_handler's flash has the LED lit
C16_Witness ==
    MainFlashReturns /\ mflash.repeat = 2 /\ mflash.writes = 4
        /\ h_pc = "flash_off" /\ led = LED_PINK

\* C17: a cycle is classified Acked only when event_handler has set the flag
\* for an event of that cycle's own uplink; events of earlier uplinks, whenever
\* their callback runs, never make a later cycle Acked.
C17_AckedOnlyByOwnEvent ==
    [][(pc = "classify" /\ outcome' = "Acked") => flagFor = counter]_vars

\* C18: a cycle for whose uplink event_handler has set the flag is never
\* one that was classified NoDownlink.
C18_NoAckLost ==
    (RX_EVENT /\ flagFor = counter) => outcome # "NoDownlink"

====
